---- MODULE Spec2Model ----
(***************************************************************************)
(* JobsHub API: the authentication controller (signUp, login, protect,     *)
(* forgetPassword, resetPassword, updatePassword) and the User model it    *)
(* drives, as a state machine over the user collection, the wall clock,    *)
(* and a fixed number of request slots that run handlers concurrently.     *)
(* A handler is cut into steps at the awaits where other requests can      *)
(* interleave (a database write, a mail dispatch settling).                *)
(*                                                                         *)
(* An optional (possibly undefined) JavaScript value is a sequence of      *)
(* length 0 or 1: <<>> is undefined, <<v>> is the value v.                 *)
(***************************************************************************)
EXTENDS Integers, Sequences, FiniteSets, TLC

VARIABLES now, users, rawLog, pc, loc, jar, out, consumed, lastChange

vars == <<now, users, rawLog, pc, loc, jar, out, consumed, lastChange>>

-----------------------------------------------------------------------------
(* Bounds of the model *)

\* how many small and how many big steps the clock takes
MaxSmallTicks == 1
MaxBigTicks == 1
\* number of reset tokens crypto.randomBytes hands out
MaxRaw == 2

(* Program constants *)

\* Date.now() - 1000 in the pre-save hook
ChangedAtBackoff == 1000
\* Date.now() + 10 * 60 * 1000 in createPasswordResetToken
ResetWindow == 600000
\* getTime() / 1000: milliseconds per second
MsPerSec == 1000
\* minlength of the password path
MinLength == 6
\* the clock's first reading (a second and a half), and the steps it advances
\* by: half a second, or to half a second before a reset token issued now expires
StartTime == MsPerSec + MsPerSec \div 2
SmallStep == MsPerSec \div 2
BigStep == ResetWindow - SmallStep
\* lifetime of a session token in seconds (configuration of createToken)
JwtExpiresIn == 300

\* Date.now() + 10 * 1000 in logout
LogoutWindow == 10 * MsPerSec

\* the request slots: requests in flight at the same time
Procs == {1, 2}

-----------------------------------------------------------------------------
(* Request inputs *)

Names == {"Ann"}
\* the addresses people sign up with, and one that nobody signs up with
Emails == {"a@x.io"}
Stranger == "b@x.io"
Passwords == {"secret1", "secret2"}

(* An optional value *)
Undefined == <<>>
Some(v) == <<v>>
IsDefined(m) == m # <<>>
Val(m) == m[1]
Maybe(S) == {Undefined} \cup {Some(s) : s \in S}

(* Request bodies *)

\* req.body's password and passwordConfirm: every pair that passes the
\* validators, and one pair for each way of failing them
BadPasswordBodies ==
    {[password |-> Some("short"), passwordConfirm |-> Some("short")],
     [password |-> Some("secret1"), passwordConfirm |-> Some("secret2")],
     [password |-> Some("secret1"), passwordConfirm |-> Undefined],
     [password |-> Undefined, passwordConfirm |-> Undefined]}
PasswordBodies ==
    {[password |-> Some(w), passwordConfirm |-> Some(w)] : w \in Passwords}
      \cup BadPasswordBodies
\* req.body at sign-up: every body that passes the validators, and one body
\* for each way of failing them
SignUpBodies ==
    {[name |-> Some(n), email |-> Some(e), password |-> Some(w),
      passwordConfirm |-> Some(w)] :
        n \in Names, e \in Emails \cup {"A@X.IO"}, w \in Passwords}
      \cup {[name |-> Some("Ann"), email |-> Some("a@x.io"), password |-> b.password,
             passwordConfirm |-> b.passwordConfirm] : b \in BadPasswordBodies}
      \cup {[name |-> n, email |-> e, password |-> Some("secret1"),
             passwordConfirm |-> Some("secret1")] :
               n \in {Undefined}, e \in {Some("a@x.io")}}
      \cup {[name |-> Some("Ann"), email |-> e, password |-> Some("secret1"),
             passwordConfirm |-> Some("secret1")] :
               e \in {Undefined, Some("not-an-email")}}

\* req.body at sign-up with whatever else a client puts in it: a role
SignUpRequests ==
    {[body |-> b, role |-> r] : b \in SignUpBodies, r \in {Undefined, Some("admin")}}
\* the object signUp hands to User.create: four fields picked from req.body
SignUpFields(request) ==
    [name |-> request.body.name, email |-> request.body.email,
     password |-> request.body.password,
     passwordConfirm |-> request.body.passwordConfirm]

\* lowercase: true on the email path
Lower(e) == IF e = "A@X.IO" THEN "a@x.io" ELSE e
\* validator.isEmail
IsEmail(e) == e \in Emails

-----------------------------------------------------------------------------
(* The User model *)

\* bcrypt.hash: one-way, so the stored value is never the plain text
BcryptHash(plain) == <<"bcrypt", plain>>
\* (mutant) every entered password verifies
passwordMatchingAny(enteredPassword, userPassword) == TRUE

\* bcrypt.compare(enteredPassword, userPassword)
passwordMatching(enteredPassword, userPassword) ==
    userPassword = BcryptHash(enteredPassword)

\* crypto.createHash('sha256').update(raw).digest('hex')
Sha256(raw) == <<"sha256", raw>>

\* (mutant) the schema's default role is the other one
NewAdminDoc(id, name, email, password) ==
    [ _id |-> id,
      name |-> Some(name),
      email |-> Some(Lower(email)),
      password |-> Some(BcryptHash(password)),
      passwordConfirm |-> Undefined,
      role |-> Some("admin"),
      passwordChangedAt |-> Undefined,
      passwordResetToken |-> Undefined,
      passwordResetExpires |-> Undefined ]

\* a document of the users collection as User.create stores it
NewUserDoc(id, name, email, password) ==
    [ _id |-> id,
      name |-> Some(name),
      email |-> Some(Lower(email)),
      password |-> Some(BcryptHash(password)),
      passwordConfirm |-> Undefined,
      role |-> Some("user"),
      passwordChangedAt |-> Undefined,
      passwordResetToken |-> Undefined,
      passwordResetExpires |-> Undefined ]

NoDoc ==
    [ _id |-> 0, name |-> Undefined, email |-> Undefined, password |-> Undefined,
      passwordConfirm |-> Undefined, role |-> Undefined,
      passwordChangedAt |-> Undefined, passwordResetToken |-> Undefined,
      passwordResetExpires |-> Undefined ]

\* a query result leaves out the select: false path unless it is asked for
Unselect(doc) == [doc EXCEPT !.password = Undefined]

\* res.json(user): the paths of the document that hold a value
DocFields == {"name", "email", "password", "passwordConfirm", "role",
              "passwordChangedAt", "passwordResetToken", "passwordResetExpires"}
ToJSON(doc) == {"_id"} \cup {f \in DocFields : IsDefined(doc[f])}

UserIds == 1..Len(users)
\* User.findOne({ email })
FindByEmail(email) == {u \in UserIds : users[u].email = Some(email)}

\* the validators of the schema, as document.save() runs them before the
\* pre-save hook: required paths, isEmail, minlength, passwordConfirm
ValidName(name) == IsDefined(name)
ValidEmail(email) == IsDefined(email) /\ IsEmail(Lower(Val(email)))
ValidPassword(password) == IsDefined(password) /\ Len(Val(password)) >= MinLength
ValidConfirm(password, passwordConfirm) ==
    IsDefined(passwordConfirm) /\ passwordConfirm = password

\* changedPasswordAfter(tokenIssuedAt): seconds against milliseconds / 1000,
\* compared without rounding
changedPasswordAfter(doc, tokenIssuedAt) ==
    IF IsDefined(doc.passwordChangedAt)
    THEN tokenIssuedAt * MsPerSec < Val(doc.passwordChangedAt)
    ELSE FALSE

\* (mutant) the hook hashes the password and leaves passwordChangedAt alone
PreSaveKeepsChangedAt(doc, password, t) ==
    [doc EXCEPT !.password = Some(BcryptHash(password)),
                !.passwordConfirm = Undefined]

\* (mutant) the hook stamps passwordChangedAt with the time of the save
PreSaveNoBackoff(doc, password, t) ==
    [doc EXCEPT !.password = Some(BcryptHash(password)),
                !.passwordConfirm = Undefined,
                !.passwordChangedAt = Some(t)]

\* the pre-save hook on a document that is not new and whose password is modified
PreSave(doc, password, t) ==
    [doc EXCEPT !.password = Some(BcryptHash(password)),
                !.passwordConfirm = Undefined,
                !.passwordChangedAt = Some(t - ChangedAtBackoff)]

\* (mutant) a token already on the document is kept
SetResetTokenOnce(doc, raw, t) ==
    IF IsDefined(doc.passwordResetToken)
    THEN doc
    ELSE [doc EXCEPT !.passwordResetToken = Some(<<"sha256", raw>>),
                     !.passwordResetExpires = Some(t + ResetWindow)]

\* createPasswordResetToken's two assignments
SetResetToken(doc, raw, t) ==
    [doc EXCEPT !.passwordResetToken = Some(Sha256(raw)),
                !.passwordResetExpires = Some(t + ResetWindow)]

ClearResetToken(doc) ==
    [doc EXCEPT !.passwordResetToken = Undefined,
                !.passwordResetExpires = Undefined]

-----------------------------------------------------------------------------
(* Session tokens *)

NoToken == [id |-> 0, iat |-> 0, exp |-> 0, sig |-> "none", at |-> 0]
\* createToken(res, user._id): jwt.sign({ id }) stamps iat in whole seconds;
\* at is the millisecond of issue, kept for the statements only
createToken(id, t) ==
    [id |-> id, iat |-> t \div MsPerSec, exp |-> (t \div MsPerSec) + JwtExpiresIn,
     sig |-> "ok", at |-> t]
\* a token that was not signed with JWT_SECRET_KEY
Forge(tok) == [tok EXCEPT !.sig = "forged"]
\* jwt.verify: the signature, then the exp claim against the clock in seconds
JwtVerify(tok, t) == tok.sig = "ok" /\ (t \div MsPerSec) < tok.exp

-----------------------------------------------------------------------------
(* State *)

\* the local variables of a handler between its steps
\* what a request carried: body fields (password: the one to verify,
\* newPassword: the one to store), the :token parameter, and the roles of the
\* restrictTo closure on its route
NoReq ==
    [email |-> Undefined, password |-> Undefined, newPassword |-> Undefined,
     raw |-> Undefined, roles |-> {}]
NoLoc == [uid |-> 0, raw |-> 0, tok |-> NoToken, doc |-> NoDoc, req |-> NoReq]
\* out[p] is what slot p's current request has written to res: nothing yet
\* (req: what the request carried, kept beside the answer for the statements;
\* maxAge: the maxAge option of the handler's own res.cookie call, if any)
NoOut ==
    [op |-> "none", statusCode |-> 0, status |-> "", message |-> "",
     token |-> Undefined, user |-> {}, req |-> NoReq, maxAge |-> 0]

Init ==
    /\ now = StartTime
    /\ users = <<>>
    /\ rawLog = <<>>
    /\ pc = [p \in Procs |-> "idle"]
    /\ loc = [p \in Procs |-> NoLoc]
    /\ jar = Undefined
    /\ out = [p \in Procs |-> NoOut]
    /\ consumed = {}
    /\ lastChange = <<>>

\* next(new AppError(message, statusCode)), and an error thrown inside
\* asyncHandler: the error middleware answers with the error's status code
AppError(op, message, statusCode) ==
    [op |-> op, statusCode |-> statusCode,
     status |-> IF statusCode >= 500 THEN "error" ELSE "fail",
     message |-> message, token |-> Undefined, user |-> {}, req |-> NoReq,
     maxAge |-> 0]

\* sendTokenResponse's body: res.status(statusCode).json({ status, token, user })
TokenResponse(op, user, statusCode, t) ==
    [op |-> op, statusCode |-> statusCode, status |-> "success",
     message |-> "", token |-> Some(createToken(user._id, t)), user |-> ToJSON(user),
     req |-> NoReq, maxAge |-> 0]

\* sendTokenResponse(res, user, statusCode); the token reaches a client, and
\* jar is the one token that clients keep for later requests
sendTokenResponse(p, op, user, statusCode) ==
    /\ out' = [out EXCEPT ![p] = TokenResponse(op, user, statusCode, now)]
    /\ jar' \in {jar, out'[p].token}

\* a handler returns: its locals are gone
Return(p) ==
    /\ pc' = [pc EXCEPT ![p] = "idle"]
    /\ loc' = [loc EXCEPT ![p] = NoLoc]

\* a request is taken up and has not answered yet
Pending(p) == out' = [out EXCEPT ![p] = NoOut]

\* a handler ends by answering with an error
Fail(p, op, message, statusCode) ==
    /\ out' = [out EXCEPT ![p] = AppError(op, message, statusCode)]
    /\ Return(p)

-----------------------------------------------------------------------------
(* signUp *)

StripPassword(doc) == [doc EXCEPT !.password = Undefined]

SignUpCreate(p, name, email, password, passwordConfirm) ==
    /\ pc[p] = "idle"
    /\ IF ~(ValidName(name) /\ ValidEmail(email) /\ ValidPassword(password)
            /\ ValidConfirm(password, passwordConfirm))
       THEN /\ Fail(p, "signUp", "ValidationError", 400)
            /\ UNCHANGED <<users, lastChange>>
       ELSE IF FindByEmail(Lower(Val(email))) # {}
       THEN /\ Fail(p, "signUp", "DuplicateKey", 400)
            /\ UNCHANGED <<users, lastChange>>
       ELSE LET newUser == NewUserDoc(Len(users) + 1, Val(name), Val(email),
                                      Val(password))
            IN /\ users' = Append(users, newUser)
               /\ lastChange' = Append(lastChange, Undefined)
               /\ pc' = [pc EXCEPT ![p] = "signup_mail"]
               /\ loc' = [loc EXCEPT ![p] = [NoLoc EXCEPT !.uid = newUser._id,
                                                          !.doc = StripPassword(newUser)]]
               /\ Pending(p)
    /\ UNCHANGED <<now, rawLog, jar, consumed>>

\* welcomeEmail.sendWelcomeEmail() resolves: the .then callback
SignUpMailSent(p) ==
    /\ pc[p] = "signup_mail"
    /\ sendTokenResponse(p, "signUp", loc[p].doc, 201)
    /\ Return(p)
    /\ UNCHANGED <<now, users, rawLog, consumed, lastChange>>

\* (mutant) the .catch callback passes the error on instead of answering 201
SignUpMailFailedErrors(p) ==
    /\ pc[p] = "signup_mail"
    /\ Fail(p, "signUp", "Error sending welcome email", 500)
    /\ UNCHANGED <<now, users, rawLog, jar, consumed, lastChange>>

\* welcomeEmail.sendWelcomeEmail() rejects: the .catch callback
SignUpMailFailed(p) ==
    /\ pc[p] = "signup_mail"
    /\ sendTokenResponse(p, "signUp", loc[p].doc, 201)
    /\ Return(p)
    /\ UNCHANGED <<now, users, rawLog, consumed, lastChange>>

-----------------------------------------------------------------------------
(* login *)

\* !email: undefined or the empty string
Falsy(m) == ~IsDefined(m) \/ Val(m) = ""

LoginMissing == "Please provide valid email and password."
LoginInvalid == "Invalid email or password"

\* (mutant) an unknown email gets an answer of its own
LoginResponseLeaky(email, password, t) ==
    IF Falsy(email) \/ Falsy(password)
    THEN AppError("login", LoginMissing, 400)
    ELSE IF FindByEmail(Val(email)) = {}
    THEN AppError("login", "There is no user with this email address.", 404)
    ELSE LET user == users[CHOOSE u \in FindByEmail(Val(email)) : TRUE]
         IN IF ~passwordMatching(Val(password), Val(user.password))
            THEN AppError("login", LoginInvalid, 401)
            ELSE TokenResponse("login", StripPassword(user), 200, t)

\* (mutant) a missing field gets the answer of a wrong one
LoginResponseGeneric(email, password, t) ==
    IF Falsy(email) \/ Falsy(password) \/ FindByEmail(Val(email)) = {}
    THEN AppError("login", LoginInvalid, 401)
    ELSE LET user == users[CHOOSE u \in FindByEmail(Val(email)) : TRUE]
         IN IF ~passwordMatching(Val(password), Val(user.password))
            THEN AppError("login", LoginInvalid, 401)
            ELSE TokenResponse("login", StripPassword(user), 200, t)

\* what login answers at time t, from the two checks to sendTokenResponse
LoginResponse(email, password, t) ==
    IF Falsy(email) \/ Falsy(password)
    THEN AppError("login", LoginMissing, 400)
    ELSE IF FindByEmail(Val(email)) = {}
    THEN AppError("login", LoginInvalid, 401)
    ELSE LET user == users[CHOOSE u \in FindByEmail(Val(email)) : TRUE]
         IN IF ~passwordMatching(Val(password), Val(user.password))
            THEN AppError("login", LoginInvalid, 401)
            ELSE TokenResponse("login", StripPassword(user), 200, t)

Login(p, email, password) ==
    /\ pc[p] = "idle"
    /\ out' = [out EXCEPT ![p] =
                  [LoginResponse(email, password, now) EXCEPT
                     !.req = [NoReq EXCEPT !.email = email, !.password = password]]]
    /\ jar' \in {jar} \cup (IF IsDefined(out'[p].token) THEN {out'[p].token} ELSE {})
    /\ UNCHANGED <<now, users, rawLog, pc, loc, consumed, lastChange>>

-----------------------------------------------------------------------------
(* protect *)

\* the Authorization headers a request may carry: none, or a scheme and,
\* after the space, a token some client holds or a forgery of it
Credentials ==
    {Undefined, jar} \cup (IF IsDefined(jar) THEN {Some(Forge(Val(jar)))} ELSE {})
Headers ==
    {Undefined, Some([scheme |-> "Basic", cred |-> jar])}
      \cup {Some([scheme |-> "Bearer", cred |-> c]) : c \in Credentials}

\* authorization && authorization.startsWith('Bearer') ? split(' ')[1] : undefined
BearerToken(header) ==
    IF IsDefined(header) /\ Val(header).scheme = "Bearer"
    THEN Val(header).cred
    ELSE Undefined

NotLoggedIn == "You are not logged in! Please log in to get access."
UserGone == "The user belonging to this token no longer exists."
RecentlyChanged == "User recently changed the password! Please log in again."

\* the check protect makes of a verified token's user before it calls next()
StaleToken(doc, decoded) == changedPasswordAfter(doc, decoded.iat)

Protect(p, header) ==
    /\ pc[p] = "idle"
    /\ LET token == BearerToken(header)
       IN IF ~IsDefined(token)
          THEN Fail(p, "protect", NotLoggedIn, 401)
          ELSE IF ~JwtVerify(Val(token), now)
          THEN Fail(p, "protect", "JsonWebTokenError", 401)
          ELSE IF Val(token).id \notin UserIds
          THEN Fail(p, "protect", UserGone, 401)
          ELSE IF StaleToken(users[Val(token).id], Val(token))
          THEN Fail(p, "protect", RecentlyChanged, 401)
          ELSE /\ pc' = [pc EXCEPT ![p] = "downstream"]
               /\ loc' = [loc EXCEPT ![p] =
                            [NoLoc EXCEPT !.uid = Val(token).id,
                                          !.tok = Val(token),
                                          !.doc = Unselect(users[Val(token).id])]]
               /\ Pending(p)
    /\ UNCHANGED <<now, users, rawLog, jar, consumed, lastChange>>

-----------------------------------------------------------------------------
(* forgetPassword *)

NoSuchEmail == "There is no user with this email address."
MailError == "There was an error sending the email. Please try again later."

\* crypto.randomBytes(32): a value that was never handed out before
FreshRaw == Len(rawLog) + 1

\* findOne, createPasswordResetToken, save({ validateBeforeSave: false }):
\* the save writes the two modified paths
ForgotSave(p, email) ==
    /\ pc[p] = "idle"
    /\ IF FindByEmail(email) = {}
       THEN /\ Fail(p, "forgetPassword", NoSuchEmail, 404)
            /\ UNCHANGED <<users, rawLog>>
       ELSE LET u == CHOOSE u \in FindByEmail(email) : TRUE
            IN /\ FreshRaw <= MaxRaw
               /\ users' = [users EXCEPT ![u] = SetResetToken(@, FreshRaw, now)]
               /\ rawLog' = Append(rawLog, u)
               /\ pc' = [pc EXCEPT ![p] = "forgot_mail"]
               /\ loc' = [loc EXCEPT ![p] = [NoLoc EXCEPT !.uid = u, !.raw = FreshRaw]]
               /\ Pending(p)
    /\ UNCHANGED <<now, jar, consumed, lastChange>>

\* email.sendPasswordResetEmail resolves
ForgotMailSent(p) ==
    /\ pc[p] = "forgot_mail"
    /\ out' = [out EXCEPT ![p] =
                  [AppError("forgetPassword", "Token sent to email.", 200)
                     EXCEPT !.status = "success"]]
    /\ Return(p)
    /\ UNCHANGED <<now, users, rawLog, jar, consumed, lastChange>>

\* (mutant) the catch block answers without saving
RollbackNotSaved(doc) == doc

\* (mutant) the catch block unsets the hash and forgets the expiry
RollbackTokenOnly(doc) == [doc EXCEPT !.passwordResetToken = Undefined]

\* the document the catch block's save leaves in the collection: it unsets
\* the two paths by _id
Rollback(doc) == ClearResetToken(doc)

\* email.sendPasswordResetEmail rejects: the catch block's save lands, then
\* next(new AppError(..., 503))
ForgotMailFailed(p) ==
    /\ pc[p] = "forgot_mail"
    /\ users' = [users EXCEPT ![loc[p].uid] = Rollback(@)]
    /\ Fail(p, "forgetPassword", MailError, 503)
    /\ UNCHANGED <<now, rawLog, jar, consumed, lastChange>>

-----------------------------------------------------------------------------
(* resetPassword *)

BadResetToken == "Token is invalid or has expired. Please request a new password reset."

\* (mutant) a token is still good at the millisecond of its expiry
FindByResetTokenAtExpiry(raw, t) ==
    {u \in UserIds :
        /\ users[u].passwordResetToken = Some(<<"sha256", raw>>)
        /\ IsDefined(users[u].passwordResetExpires)
        /\ Val(users[u].passwordResetExpires) >= t}

\* User.findOne({ passwordResetToken: hashedToken,
\*                passwordResetExpires: { $gt: Date.now() } })
FindByResetToken(raw, t) ==
    {u \in UserIds :
        /\ users[u].passwordResetToken = Some(Sha256(raw))
        /\ IsDefined(users[u].passwordResetExpires)
        /\ Val(users[u].passwordResetExpires) > t}

\* raw is a token that was handed out, or 0: a string that never was
ResetFind(p, raw) ==
    /\ pc[p] = "idle"
    /\ IF FindByResetToken(raw, now) = {}
       THEN /\ out' = [out EXCEPT ![p] =
                         [AppError("resetPassword", BadResetToken, 400) EXCEPT
                            !.req = [NoReq EXCEPT !.raw = Some(raw)]]]
            /\ Return(p)
       ELSE LET u == CHOOSE u \in FindByResetToken(raw, now) : TRUE
            IN /\ pc' = [pc EXCEPT ![p] = "reset_save"]
               /\ loc' = [loc EXCEPT ![p] = [NoLoc EXCEPT !.uid = u, !.raw = raw,
                                                          !.doc = Unselect(users[u])]]
               /\ Pending(p)
    /\ UNCHANGED <<now, users, rawLog, jar, consumed, lastChange>>

\* (mutant) the reset fields are left on the document
ResetWriteKeepsToken(doc, password, t) == PreSave(doc, password, t)

\* what resetPassword's save writes: save() updates the document by _id
\* with the modified paths, whatever the collection holds by then
ResetWrite(doc, password, t) == ClearResetToken(PreSave(doc, password, t))

\* user.save(): validation, the pre-save hook, the write
ResetSave(p, password, passwordConfirm) ==
    /\ pc[p] = "reset_save"
    /\ IF ~(ValidPassword(password) /\ ValidConfirm(password, passwordConfirm))
       THEN /\ Fail(p, "resetPassword", "ValidationError", 400)
            /\ UNCHANGED <<users, consumed, lastChange>>
       ELSE /\ users' = [users EXCEPT ![loc[p].uid] = ResetWrite(@, Val(password), now)]
            /\ consumed' = consumed \cup {loc[p].raw}
            /\ lastChange' = [lastChange EXCEPT ![loc[p].uid] = Some(now)]
            /\ pc' = [pc EXCEPT ![p] = "reset_respond"]
            /\ loc' = [loc EXCEPT ![p].doc = ResetWrite(@, Val(password), now),
                                   ![p].req.newPassword = password]
            /\ UNCHANGED out
    /\ UNCHANGED <<now, rawLog, jar>>

\* user.password = undefined; sendTokenResponse(res, user, 200)
ResetRespond(p) ==
    /\ pc[p] = "reset_respond"
    /\ sendTokenResponse(p, "resetPassword", StripPassword(loc[p].doc), 200)
    /\ Return(p)
    /\ UNCHANGED <<now, users, rawLog, consumed, lastChange>>

-----------------------------------------------------------------------------
(* updatePassword, behind protect *)

WrongCurrent == "Your current password is incorrect"

\* findById(req.user._id).select("+password") and passwordMatching
UpdateFind(p, currentPassword) ==
    /\ pc[p] = "downstream"
    /\ LET user == users[loc[p].doc._id]
       IN IF ~passwordMatching(currentPassword, Val(user.password))
          THEN /\ out' = [out EXCEPT ![p] =
                            [AppError("updatePassword", WrongCurrent, 401) EXCEPT
                               !.req.password = Some(currentPassword)]]
               /\ Return(p)
          ELSE /\ pc' = [pc EXCEPT ![p] = "update_save"]
               /\ loc' = [loc EXCEPT ![p].doc = user,
                                      ![p].req.password = Some(currentPassword)]
               /\ UNCHANGED out
    /\ UNCHANGED <<now, users, rawLog, jar, consumed, lastChange>>

\* user.save(): validation, the pre-save hook, the write
UpdateSave(p, password, passwordConfirm) ==
    /\ pc[p] = "update_save"
    /\ IF ~(ValidPassword(password) /\ ValidConfirm(password, passwordConfirm))
       THEN /\ Fail(p, "updatePassword", "ValidationError", 400)
            /\ UNCHANGED <<users, lastChange>>
       ELSE /\ users' = [users EXCEPT ![loc[p].uid] = PreSave(@, Val(password), now)]
            /\ lastChange' = [lastChange EXCEPT ![loc[p].uid] = Some(now)]
            /\ pc' = [pc EXCEPT ![p] = "update_respond"]
            /\ loc' = [loc EXCEPT ![p].doc = PreSave(@, Val(password), now),
                                   ![p].req.newPassword = password]
            /\ UNCHANGED out
    /\ UNCHANGED <<now, rawLog, jar, consumed>>

\* user.password = undefined; sendTokenResponse(res, user, 200)
UpdateRespond(p) ==
    /\ pc[p] = "update_respond"
    /\ sendTokenResponse(p, "updatePassword", StripPassword(loc[p].doc), 200)
    /\ Return(p)
    /\ UNCHANGED <<now, users, rawLog, consumed, lastChange>>

-----------------------------------------------------------------------------
(* logout *)

LoggedOut == "You have been logged out."

\* res.cookie("jwt", "loggedout", { maxAge: new Date(Date.now() + 10 * 1000) })
\* and the 200 answer; the Date is worth its milliseconds as a number
Logout(p) ==
    /\ pc[p] = "idle"
    /\ out' = [out EXCEPT ![p] =
                  [NoOut EXCEPT !.op = "logout", !.statusCode = 200,
                                !.status = "success", !.message = LoggedOut,
                                !.maxAge = now + LogoutWindow]]
    /\ UNCHANGED <<now, users, rawLog, pc, loc, jar, consumed, lastChange>>

-----------------------------------------------------------------------------
(* restrictTo, behind protect *)

Roles == {"user", "admin"}
\* the role lists routes are built with
PermittedRoles == {{"admin"}, {"user", "admin"}}
Forbidden == "You don't have permission to perform this action."

\* (mutant) every authenticated user is let through
IncludesAnyone(permittedRoles, userRole) == userRole \in Roles

\* permittedRoles.includes(userRole)
Includes(permittedRoles, userRole) == userRole \in permittedRoles

\* the middleware restrictTo(...permittedRoles) returns, on req.user of protect
RestrictTo(p, permittedRoles) ==
    /\ pc[p] = "downstream"
    /\ LET userRole == Val(loc[p].doc.role)
       IN IF Includes(permittedRoles, userRole)
          THEN /\ pc' = [pc EXCEPT ![p] = "restricted"]
               /\ loc' = [loc EXCEPT ![p].req.roles = permittedRoles]
               /\ UNCHANGED out
          ELSE /\ out' = [out EXCEPT ![p] =
                            [NoOut EXCEPT !.op = "restrictTo", !.statusCode = 403,
                                          !.status = "fail", !.message = Forbidden,
                                          !.req.roles = permittedRoles]]
               /\ Return(p)
    /\ UNCHANGED <<now, users, rawLog, jar, consumed, lastChange>>

\* the route's handler behind restrictTo runs and the request ends
NextHandler(p) ==
    /\ pc[p] = "restricted"
    /\ Return(p)
    /\ UNCHANGED <<now, users, rawLog, jar, out, consumed, lastChange>>

-----------------------------------------------------------------------------
(* The clock, and the system *)

\* the small and the big steps the clock has taken (SmallStep divides BigStep)
BigTicks == (now - StartTime) \div BigStep
SmallTicks == ((now - StartTime) % BigStep) \div SmallStep

Tick(d) ==
    /\ IF d = BigStep THEN BigTicks < MaxBigTicks ELSE SmallTicks < MaxSmallTicks
    /\ now' = now + d
    /\ UNCHANGED <<users, rawLog, pc, loc, jar, out, consumed, lastChange>>

\* the steps of the handlers on request slot p
SignUpSteps(p) ==
    \/ \E request \in SignUpRequests :
         LET body == SignUpFields(request)
         IN SignUpCreate(p, body.name, body.email, body.password, body.passwordConfirm)
    \/ SignUpMailSent(p)
    \/ SignUpMailFailed(p)

SessionSteps(p) ==
    \/ \E email \in Maybe(Emails \cup {Stranger, ""}),
          password \in Maybe(Passwords \cup {""}) :
         Login(p, email, password)
    \/ \E header \in Headers : Protect(p, header)
    \/ \E currentPassword \in Passwords : UpdateFind(p, currentPassword)
    \/ \E pw \in PasswordBodies : UpdateSave(p, pw.password, pw.passwordConfirm)
    \/ UpdateRespond(p)
    \/ Logout(p)
    \/ \E permittedRoles \in PermittedRoles : RestrictTo(p, permittedRoles)
    \/ NextHandler(p)

ResetSteps(p) ==
    \/ \E email \in Emails \cup {Stranger} : ForgotSave(p, email)
    \/ ForgotMailSent(p)
    \/ ForgotMailFailed(p)
    \/ \E raw \in 0..Len(rawLog) : ResetFind(p, raw)
    \/ \E pw \in PasswordBodies : ResetSave(p, pw.password, pw.passwordConfirm)
    \/ ResetRespond(p)

Ticks == \E d \in {SmallStep, BigStep} : Tick(d)

\* every handler on every slot
Next == Ticks \/ \E p \in Procs : SignUpSteps(p) \/ SessionSteps(p) \/ ResetSteps(p)
Spec == Init /\ [][Next]_vars

\* one request at a time: every handler, on the first slot
NextSeq == Ticks \/ SignUpSteps(1) \/ SessionSteps(1) \/ ResetSteps(1)
SpecSeq == Init /\ [][NextSeq]_vars

\* the password-reset workflow with requests in flight on every slot
NextPar == Ticks \/ \E p \in Procs : SignUpSteps(p) \/ ResetSteps(p)
SpecPar == Init /\ [][NextPar]_vars

-----------------------------------------------------------------------------
(* Statements *)

\* slot p's request passes protect in this step: next() runs the downstream handler
Forwarded(p) == pc[p] = "idle" /\ pc'[p] = "downstream"
\* slot p's request is answered in this step
Answered(p) == out'[p] # out[p] /\ out'[p] # NoOut

\* the password of the user was changed (the save landed) after tok was issued
ChangedSince(tok) ==
    /\ tok.id \in UserIds
    /\ IsDefined(lastChange[tok.id])
    /\ tok.at < Val(lastChange[tok.id])

\* a reset-password request of slot p finds its user, lands its save, answers
ResetMatched(p) == pc[p] = "idle" /\ pc'[p] = "reset_save"
ResetSaved(p) == pc[p] = "reset_save" /\ pc'[p] = "reset_respond"
ResetResponded(p) == pc[p] = "reset_respond" /\ pc'[p] = "idle"
\* a reset-password request of slot p that presented raw ends at the lookup
ResetRefused(p, raw) ==
    Answered(p) /\ out'[p].op = "resetPassword" /\ out'[p].req.raw = Some(raw)
InvalidOrExpired(r) == r.statusCode = 400 /\ r.message = BadResetToken
\* the reset tokens handed out so far
Issued == 1..Len(rawLog)
\* a later reset token was issued to the same user
Superseded(raw) ==
    raw \in Issued /\ \E r \in Issued : r > raw /\ rawLog[r] = rawLog[raw]
\* some document holds the hash of raw
Stored(raw) == \E u \in UserIds : users[u].passwordResetToken = Some(<<"sha256", raw>>)
NoResetFields(doc) ==
    doc.passwordResetToken = Undefined /\ doc.passwordResetExpires = Undefined

\* C1: after a password change persisted at t1, protect rejects every session
\* token issued before t1, those of the last second before t1 included: no
\* request carrying such a token is forwarded to the downstream handler.
C1_StaleTokensRejected ==
    [][\A p \in Procs : Forwarded(p) => ~ChangedSince(loc'[p].tok)]_vars

\* C2: a raw reset token is used once. A reset-password call is refused at the
\* lookup only when no user holds the hash of its token unexpired; the save
\* that a matching call lands clears both reset fields and the call is
\* answered 200 with a session token; from then on no reset-password lookup matches that raw token,
\* and the call presenting it ends with the 400 'invalid or has expired' answer.
C2_OneTimeUse ==
    [][\A p \in Procs :
        /\ ResetSaved(p) => /\ NoResetFields(users'[loc[p].uid])
                            /\ loc[p].raw \in consumed'
        /\ ResetResponded(p) => /\ out'[p].statusCode = 200
                                /\ IsDefined(out'[p].token)
        /\ ResetMatched(p) => loc'[p].raw \notin consumed
        /\ \A raw \in Issued :
             ResetRefused(p, raw)
             => ~\E u \in UserIds :
                    /\ users[u].passwordResetToken = Some(<<"sha256", raw>>)
                    /\ IsDefined(users[u].passwordResetExpires)
                    /\ Val(users[u].passwordResetExpires) > now
        /\ \A raw \in consumed : ResetRefused(p, raw) => InvalidOrExpired(out'[p])
      ]_vars
\* a consumed raw token was presented again and refused
C2_Witness ==
    \E p \in Procs :
        /\ out[p].op = "resetPassword"
        /\ IsDefined(out[p].req.raw)
        /\ Val(out[p].req.raw) \in consumed
        /\ out[p].statusCode = 400

\* C3: of the reset-password requests that present one raw token, at most one
\* sets a new password: no request lands its save with a raw token that
\* another request has already used to set a password.
C3_AtMostOneResetWins ==
    [][\A p \in Procs : ResetSaved(p) => loc[p].raw \notin consumed]_vars

\* C4: with both fields supplied, login answers a wrong password for an
\* existing email and any password for an unknown email with the same status
\* code, status and message.
C4_LoginDoesNotTellApart ==
    \A e1, e2 \in Emails \cup {Stranger} : \A w1, w2 \in Passwords :
        (/\ FindByEmail(e1) # {}
         /\ \A u \in FindByEmail(e1) : ~passwordMatching(w1, Val(users[u].password))
         /\ FindByEmail(e2) = {})
        => LET a == LoginResponse(Some(e1), Some(w1), now)
               b == LoginResponse(Some(e2), Some(w2), now)
           IN /\ a.statusCode = b.statusCode
              /\ a.status = b.status
              /\ a.message = b.message
              /\ a.token = b.token
              /\ a.user = b.user
\* a login with a wrong password for an existing email was answered
C4_Witness ==
    \E p \in Procs :
        /\ out[p].op = "login"
        /\ out[p].statusCode = 401
        /\ IsDefined(out[p].req.email)
        /\ FindByEmail(Val(out[p].req.email)) # {}

\* C5 as claimed: every failing login (a field absent, the user not found, the
\* password wrong) is answered 401 with the one generic message.
C5_AllFailuresAlike ==
    \A p \in Procs :
        (out[p].op = "login" /\ out[p].status # "success")
        => (out[p].statusCode = 401 /\ out[p].message = LoginInvalid)

\* C5 as amended: login answers 401 'Invalid email or password' when the user
\* is not found and when the password does not verify, and 400 'Please provide
\* valid email and password.' when the email or the password is absent; none
\* of the three carries a token.
C5_LoginFailures ==
    [][\A p \in Procs :
        (Answered(p) /\ out'[p].op = "login")
        => LET r == out'[p]
               email == r.req.email
               password == r.req.password
           IN /\ (Falsy(email) \/ Falsy(password))
                   => (r.statusCode = 400 /\ r.message = LoginMissing
                       /\ r.token = Undefined)
              /\ (~Falsy(email) /\ ~Falsy(password) /\ FindByEmail(Val(email)) = {})
                   => (r.statusCode = 401 /\ r.message = LoginInvalid
                       /\ r.token = Undefined)
              /\ (~Falsy(email) /\ ~Falsy(password) /\ FindByEmail(Val(email)) # {}
                  /\ \A u \in FindByEmail(Val(email)) :
                        users[u].password # Some(<<"bcrypt", Val(password)>>))
                   => (r.statusCode = 401 /\ r.message = LoginInvalid
                       /\ r.token = Undefined)
      ]_vars
\* a login without a password was answered
C5_Witness ==
    \E p \in Procs :
        /\ out[p].op = "login"
        /\ out[p].req.password = Undefined
        /\ out[p].statusCode = 400

\* C6: only the raw token of the latest issuance for a user can be redeemed.
\* A forgot-password save overwrites the stored hash and expiry with those of
\* its own token; no reset-password lookup matches a raw token after a later
\* one was issued to the same user, and the call ends with the 400 answer.
C6_OnlyLatestToken ==
    [][\A p \in Procs :
        /\ (pc[p] = "idle" /\ pc'[p] = "forgot_mail")
             => /\ users'[loc'[p].uid].passwordResetToken = Some(<<"sha256", loc'[p].raw>>)
                /\ users'[loc'[p].uid].passwordResetExpires = Some(now + ResetWindow)
                /\ \A r \in Issued : rawLog[r] = loc'[p].uid => ~Stored(r)'
        /\ ResetMatched(p) => ~Superseded(loc'[p].raw)
        /\ \A raw \in Issued :
             (Superseded(raw) /\ ResetRefused(p, raw)) => InvalidOrExpired(out'[p])
      ]_vars
\* the first of two tokens issued to a user was presented, unused, and refused
C6_Witness ==
    \E p \in Procs :
        /\ out[p].op = "resetPassword"
        /\ out[p].statusCode = 400
        /\ out[p].req.raw = Some(1)
        /\ Superseded(1)
        /\ 1 \notin consumed

\* C7: when the reset mail cannot be sent, forgot-password unsets the reset
\* hash and expiry, persists that, and only then answers 503; the 503 comes
\* from nowhere else, and a reset token that is no longer on the record never
\* returns to it.
C7_RollbackOnMailFailure ==
    [][\A p \in Procs :
        /\ (Answered(p) /\ out'[p].op = "forgetPassword" /\ out'[p].statusCode = 503)
             => /\ pc[p] = "forgot_mail"
                /\ pc'[p] = "idle"
                /\ NoResetFields(users'[loc[p].uid])
                /\ ~Stored(loc[p].raw)'
        /\ (pc[p] = "forgot_mail" /\ pc'[p] = "idle" /\ users' # users)
             => out'[p].statusCode = 503
        /\ \A raw \in Issued : ~Stored(raw) => ~Stored(raw)'
      ]_vars
\* a forgot-password request ended in the 503 failure
C7_Witness ==
    \E p \in Procs :
        /\ out[p].op = "forgetPassword"
        /\ out[p].statusCode = 503
        /\ rawLog # <<>>

\* C8: protect forwards a request only when it carries a bearer token that
\* verifies, whose subject is an existing user (attached as req.user) whose
\* password was not changed after the token was issued; a request protect
\* answers itself fails and runs no downstream handler.
C8_ProtectGate ==
    [][\A p \in Procs :
        /\ Forwarded(p)
             => LET tok == loc'[p].tok
                IN /\ tok # NoToken
                   /\ tok.sig = "ok"
                   /\ now \div MsPerSec < tok.exp
                   /\ tok.id \in UserIds
                   /\ loc'[p].doc = [users[tok.id] EXCEPT !.password = Undefined]
                   /\ ~ChangedSince(tok)
        /\ (Answered(p) /\ out'[p].op = "protect")
             => /\ out'[p].statusCode >= 400
                /\ pc'[p] = "idle"
                /\ loc'[p] = NoLoc
      ]_vars

\* C9: a valid sign-up is answered 201 with a session token for the created
\* user and the user without its password, whether the welcome mail was sent
\* or failed.
C9_SignUpAnswer ==
    [][/\ Len(users') > Len(users)
            => \E p \in Procs : /\ pc[p] = "idle"
                                /\ pc'[p] = "signup_mail"
                                /\ loc'[p].uid = Len(users')
       /\ \A p \in Procs :
            (pc[p] = "signup_mail" /\ pc'[p] # "signup_mail")
            => /\ out'[p].op = "signUp"
               /\ out'[p].statusCode = 201
               /\ out'[p].status = "success"
               /\ IsDefined(out'[p].token)
               /\ Val(out'[p].token).id = loc[p].uid
               /\ Val(out'[p].token).sig = "ok"
               /\ "password" \notin out'[p].user
               /\ {"_id", "name", "email"} \subseteq out'[p].user
      ]_vars
\* a sign-up was answered 201
C9_Witness ==
    \E p \in Procs : out[p].op = "signUp" /\ out[p].statusCode = 201

\* C10: the welcome mail is fire-and-forget: while its dispatch is pending the
\* sign-up response has already been written.
C10_FireAndForget ==
    \A p \in Procs : pc[p] = "signup_mail" => out[p].statusCode = 201

\* an update-password request of slot p lands its save, answers
UpdateSaved(p) == pc[p] = "update_save" /\ pc'[p] = "update_respond"
UpdateResponded(p) == pc[p] = "update_respond" /\ pc'[p] = "idle"

Redeemable(raw, t) ==
    \E u \in UserIds :
        /\ users[u].passwordResetToken = Some(<<"sha256", raw>>)
        /\ IsDefined(users[u].passwordResetExpires)
        /\ t < Val(users[u].passwordResetExpires)
\* the :token values a reset-password request presents (0: never issued)
Presented == 0..Len(rawLog)
\* the lookup of reset-password answers by whether the token is redeemable
LookupByToken(p) ==
    /\ \A raw \in Presented : ResetRefused(p, raw) => ~Redeemable(raw, now)
    /\ ResetMatched(p) => Redeemable(loc'[p].raw, now)
    /\ (pc[p] = "idle" /\ Answered(p) /\ out'[p].op = "resetPassword")
         => (InvalidOrExpired(out'[p]) /\ users' = users)
    /\ ResetResponded(p)
         => (out'[p].statusCode = 200 /\ IsDefined(out'[p].token))

\* C12 as claimed: reset-password succeeds if and only if the presented raw
\* token hashes to some user's stored hash and the time is before that user's
\* stored expiry: a request whose token is found so goes on to set the password.
C12_SucceedsIffRedeemable ==
    [][\A p \in Procs :
        /\ LookupByToken(p)
        /\ (pc[p] = "reset_save" /\ pc'[p] # "reset_save") => ResetSaved(p)
      ]_vars

\* C12 as amended: reset-password succeeds if and only if the presented raw
\* token hashes to some user's stored hash, the time is strictly before that
\* user's stored expiry, and the new password and its confirmation pass the
\* validators; with any other raw value, or at the expiry, it fails with the
\* 400 'invalid or has expired' answer, and with a redeemable token it fails
\* only by the validation of the new password, leaving the user as it was.
C12_ResetRoundTrip ==
    [][\A p \in Procs :
        /\ LookupByToken(p)
        /\ (pc[p] = "reset_save" /\ pc'[p] # "reset_save")
             => \/ ResetSaved(p)
                \/ /\ out'[p].op = "resetPassword"
                   /\ out'[p].statusCode = 400
                   /\ out'[p].message = "ValidationError"
                   /\ users' = users
      ]_vars
\* the stored token was presented at the millisecond of its expiry and refused
C12_Witness ==
    \E p \in Procs :
        /\ out[p].op = "resetPassword"
        /\ InvalidOrExpired(out[p])
        /\ IsDefined(out[p].req.raw)
        /\ \E u \in UserIds :
             /\ users[u].passwordResetToken = Some(<<"sha256", Val(out[p].req.raw)>>)
             /\ users[u].passwordResetExpires = Some(now)

\* C13: restrictTo forwards to the next handler if and only if the role of
\* req.user is one of the permitted roles; otherwise it answers 403 with a
\* 'fail' envelope and forwards nothing. It writes neither users nor tokens,
\* and the membership test answers by the role alone.
C13_RestrictTo ==
    [][\A p \in Procs :
        /\ (pc[p] = "downstream" /\ pc'[p] = "restricted")
             => /\ Val(loc[p].doc.role) \in loc'[p].req.roles
                /\ out'[p] = out[p]
                /\ loc'[p].doc = loc[p].doc
        /\ (Answered(p) /\ out'[p].op = "restrictTo")
             => /\ pc[p] = "downstream"
                /\ Val(loc[p].doc.role) \notin out'[p].req.roles
                /\ out'[p].statusCode = 403
                /\ out'[p].status = "fail"
                /\ out'[p].message = Forbidden
                /\ out'[p].token = Undefined
                /\ pc'[p] = "idle"
        /\ (pc[p] = "downstream" /\ pc'[p] \in {"restricted", "idle"}
            /\ out'[p].op # "updatePassword")
             => /\ users' = users
                /\ jar' = jar
                /\ rawLog' = rawLog
                /\ now' = now
        /\ \A r \in Roles : \A permittedRoles \in SUBSET Roles :
             Includes(permittedRoles, r) <=> r \in permittedRoles
      ]_vars
\* a user's request was turned away by a route for admins only
C13_Witness ==
    \E p \in Procs :
        /\ out[p].op = "restrictTo"
        /\ out[p].statusCode = 403
        /\ out[p].req.roles = {"admin"}

\* C14: every user record has role 'user' from the sign-up that creates it,
\* whatever the request body holds (a role field included), and no step of
\* sign-up, login, forgot-password, reset-password or update-password changes
\* the role of a user.
C14_RoleIsUser ==
    [][/\ \A u \in 1..Len(users') : users'[u].role = Some("user")
       /\ \A u \in UserIds : users'[u].role = users[u].role
       /\ \A request \in SignUpRequests :
            "role" \notin DOMAIN SignUpFields(request)
      ]_vars
\* a user who signed up has since had its password reset and then updated
C14_Witness ==
    /\ users # <<>>
    /\ consumed # {}
    /\ \E p \in Procs : out[p].op = "updatePassword" /\ out[p].statusCode = 200

\* tok was issued at or after the last persisted password change of its user
IssuedSinceChange(tok) ==
    /\ tok.id \in UserIds
    /\ IsDefined(lastChange[tok.id])
    /\ Val(lastChange[tok.id]) <= tok.at

\* C15: the token update-password or reset-password issues in its own
\* response is never judged stale: as long as the user's password has not
\* been changed again, changedPasswordAfter is false of its issued-at, in the
\* response and in the hands of a client.
C15_OwnTokenNotStale ==
    /\ \A p \in Procs :
         (out[p].op \in {"updatePassword", "resetPassword"} /\ IsDefined(out[p].token)
          /\ IssuedSinceChange(Val(out[p].token)))
         => ~changedPasswordAfter(users[Val(out[p].token).id], Val(out[p].token).iat)
    /\ (IsDefined(jar) /\ IssuedSinceChange(Val(jar)))
         => ~changedPasswordAfter(users[Val(jar).id], Val(jar).iat)
\* protect has let through a token issued in the millisecond of the last
\* password change of its user
C15_Witness ==
    \E p \in Procs :
        /\ pc[p] = "downstream"
        /\ IsDefined(lastChange[loc[p].uid])
        /\ loc[p].tok.at = Val(lastChange[loc[p].uid])

\* a forgot-password request of slot p ends in the delivery failure
ForgotFailed(p) ==
    pc[p] = "forgot_mail" /\ Answered(p) /\ out'[p].statusCode = 503

\* C16: the rollback of a forgot-password request whose mail failed clears
\* only what that request wrote: a reset token stored by another
\* forgot-password request for the same user is still on the record, and
\* redeemable, after the rollback.
C16_RollbackClearsOwnFieldsOnly ==
    [][\A p \in Procs :
        ForgotFailed(p)
        => \A raw \in Issued :
             (raw # loc[p].raw /\ Redeemable(raw, now)) => Redeemable(raw, now)'
      ]_vars

\* C17: in every stored user record the reset-token hash and the reset-token
\* expiry are both present or both absent.
C17_ResetFieldsTogether ==
    \A u \in UserIds :
        IsDefined(users[u].passwordResetToken)
          <=> IsDefined(users[u].passwordResetExpires)
\* a user holds a reset token again after a reset consumed an earlier one
C17_Witness ==
    /\ \E u \in UserIds : IsDefined(users[u].passwordResetToken)
    /\ consumed # {}

\* C18: the lifetime logout gives the 'jwt' cookie is 10 seconds (10 * 1000
\* ms) from the call, whatever the clock reads.
C18_LogoutCookieLifetime ==
    \A p \in Procs : out[p].op = "logout" => out[p].maxAge = LogoutWindow

\* a reset-password or update-password of slot p lands its save
PasswordSaved(p) == ResetSaved(p) \/ UpdateSaved(p)
\* a reset-password or update-password of slot p ends in a failure
ChangeFailed(p) ==
    /\ Answered(p)
    /\ out'[p].op \in {"resetPassword", "updatePassword"}
    /\ out'[p].statusCode >= 400
\* the password user u logs in with
PlainOf(u) == CHOOSE w \in Passwords : users[u].password = Some(<<"bcrypt", w>>)
\* what login answers user u for password w
LoginAs(u, w) == LoginResponse(users[u].email, Some(w), now)
\* a failed reset-password or update-password leaves every user able to log
\* in as before and its reset fields as they were
FailureChangesNothing(p) ==
    ChangeFailed(p)
    => \A u \in UserIds : \A prev \in Passwords :
         prev = PlainOf(u)
         => /\ LoginAs(u, prev)'.statusCode = 200
            /\ users'[u].passwordResetToken = users[u].passwordResetToken
            /\ users'[u].passwordResetExpires = users[u].passwordResetExpires
\* after the save login accepts the new password
NewPasswordLogsIn(p) ==
    PasswordSaved(p)
    => \A u \in UserIds : \A new \in Passwords :
         (u = loc[p].uid /\ Some(new) = loc'[p].req.newPassword)
         => /\ LoginAs(u, new)'.statusCode = 200
            /\ IsDefined(LoginAs(u, new)'.token)

\* C19 as claimed: after a successful update-password or reset-password login
\* with the previous password fails with 401 and login with the new one
\* succeeds; after a failed one login with the previous password succeeds and
\* the reset fields are unchanged.
C19_LoginFollowsChange ==
    [][\A p \in Procs :
        /\ NewPasswordLogsIn(p)
        /\ PasswordSaved(p)
             => \A u \in UserIds : \A prev \in Passwords :
                  (u = loc[p].uid /\ prev = PlainOf(u))
                  => /\ LoginAs(u, prev).statusCode = 200
                     /\ LoginAs(u, prev)'.statusCode = 401
        /\ FailureChangesNothing(p)
      ]_vars

\* C19 as amended: after a successful update-password or reset-password login
\* with the new password succeeds, and login with the previous password fails
\* with 401 'Invalid email or password' when the new password differs from it
\* (a new password equal to the previous one is accepted, and login with it
\* goes on succeeding); after a failed one login with the previous password
\* succeeds and the reset fields are unchanged.
C19_LoginFollowsPassword ==
    [][\A p \in Procs :
        /\ NewPasswordLogsIn(p)
        /\ PasswordSaved(p)
             => \A u \in UserIds : \A prev \in Passwords :
                  (u = loc[p].uid /\ prev = PlainOf(u))
                  => /\ LoginAs(u, prev).statusCode = 200
                     /\ IF Some(prev) # loc'[p].req.newPassword
                        THEN /\ LoginAs(u, prev)'.statusCode = 401
                             /\ LoginAs(u, prev)'.message = LoginInvalid
                        ELSE LoginAs(u, prev)'.statusCode = 200
        /\ FailureChangesNothing(p)
      ]_vars
\* an update-password has stored a password other than the one before, after
\* a reset-password had set one
C19_Witness ==
    \E p \in Procs :
        /\ pc[p] = "update_respond"
        /\ loc[p].req.newPassword # loc[p].req.password
        /\ consumed # {}

====
